---- MODULE Spec2Model ----
(***************************************************************************)
(* Model of scripts/generate.mjs of rails-security-pr-digest: the rule     *)
(* document loader (readRules), the scoring engine (scoreOne) and the run  *)
(* (main) that fetches candidate pull requests, scores them and writes     *)
(* docs/index.md.                                                          *)
(*                                                                         *)
(* Representation.  A JavaScript string is a sequence of one-character     *)
(* strings.  A value that may be undefined/null is a sequence of length 0  *)
(* (absent) or 1 (present).  An object used as a map is the sequence of    *)
(* its entries in Object.entries order, with distinct keys.  A YAML scalar *)
(* used as a number is a record [t, n]: t = "num" carries the number n,    *)
(* t = "str" is a scalar Number() turns into NaN.                          *)
(*                                                                         *)
(* Regular expressions.  The pattern dialect modelled is the literal       *)
(* fragment of the JavaScript one: a pattern of ordinary characters        *)
(* matches every text that contains it (unanchored, case-sensitive), the   *)
(* empty pattern matches every text, and a pattern holding an unclosed     *)
(* "(" makes new RegExp throw a SyntaxError.                               *)
(***************************************************************************)
EXTENDS Integers, Sequences, FiniteSets, TLC

VARIABLES
  pc,        \* where the program is
  raw,       \* the parsed rule document, as yaml.load returns it
  rules,     \* the rules readRules returned, once loaded
  item,      \* the candidate item handed to scoreOne
  result,    \* what that call of scoreOne produced
  numbers,   \* main: the candidate numbers the search returned
  idx,       \* main: the position of the loop in numbers
  cur,       \* main: the pull request being fetched
  picked,    \* main: the adopted pull requests
  digest,    \* docs/index.md, once written
  requests,  \* the number of requests sent
  errorAt,   \* which request first got an error status, 0 when none did
  evaluated  \* the number of scoreOne calls that returned

vars == <<pc, raw, rules, item, result,
          numbers, idx, cur, picked, digest, requests, errorAt, evaluated>>

scoreVars == <<item, result>>
mainVars == <<numbers, idx, cur, picked, digest, requests, errorAt, evaluated>>

----------------------------------------------------------------------------
\* Optional values and JavaScript coercions

Absent == <<>>
Present(v) == <<v>>
IsAbsent(o) == Len(o) = 0
\* o ?? d
Coalesce(o, d) == IF Len(o) = 0 THEN d ELSE o[1]

Num(n) == [t |-> "num", n |-> n]
NotNumeric == [t |-> "str", n |-> 0]
NaN == [t |-> "nan", n |-> 0]
\* Number(v)
ToNumber(v) == IF v.t = "num" THEN v ELSE NaN
\* if (w): NaN and 0 are falsy
Truthy(w) == w.t = "num" /\ w.n # 0
\* a mutant of AtLeast: the comparison made strict
AtLeast_Strict(score, threshold) == threshold.t = "num" /\ score > threshold.n

\* score >= threshold, false when the threshold is NaN
AtLeast(score, threshold) == threshold.t = "num" /\ score >= threshold.n

----------------------------------------------------------------------------
\* new RegExp(p) and re.test(s) on the literal fragment

WellFormed(p) == \A i \in 1..Len(p) : p[i] # "("

OccursAt(p, s, k) == \A i \in 1..Len(p) : s[k + i - 1] = p[i]

Test(p, s) == \E k \in 1..(Len(s) - Len(p) + 1) : OccursAt(p, s, k)

----------------------------------------------------------------------------
\* readRules: the rule document with its missing top-level sections defaulted

DefaultWindowValue == 24
DefaultDecisionThreshold == 8

\* yaml.load(raw) of an empty document is undefined; `?? {}` makes it this
EmptyDoc ==
  [window |-> Absent, decision |-> Absent, strongSignals |-> Absent,
   scoring |-> Absent, securityGuideMapping |-> Absent]

\* a mutant of readRules: the scoring section is not defaulted
readRules_NoScoringDefault(doc) ==
  LET r == Coalesce(doc, EmptyDoc) IN
  [window |->
     Present(Coalesce(r.window,
                      [type |-> "hours", value |-> Present(Num(DefaultWindowValue))])),
   decision |->
     Present(Coalesce(r.decision,
                      [threshold |-> Present(Num(DefaultDecisionThreshold))])),
   strongSignals |->
     Present(Coalesce(r.strongSignals, [patterns |-> Present(<<>>)])),
   scoring |-> r.scoring,
   securityGuideMapping |-> Present(Coalesce(r.securityGuideMapping, <<>>))]

readRules(doc) ==
  LET r == Coalesce(doc, EmptyDoc) IN
  [window |->
     Present(Coalesce(r.window,
                      [type |-> "hours", value |-> Present(Num(DefaultWindowValue))])),
   decision |->
     Present(Coalesce(r.decision,
                      [threshold |-> Present(Num(DefaultDecisionThreshold))])),
   strongSignals |->
     Present(Coalesce(r.strongSignals, [patterns |-> Present(<<>>)])),
   scoring |->
     Present(Coalesce(r.scoring,
                      [labelWeights |-> Present(<<>>),
                       textKeywordWeights |-> Present(<<>>),
                       pathWeights |-> Present(<<>>)])),
   securityGuideMapping |-> Present(Coalesce(r.securityGuideMapping, <<>>))]

\* compileWeightedRegexMap: throws when a key does not compile; a weight that
\* is not a number, or is 0, becomes 0
AllWellFormed(ps) == \A i \in 1..Len(ps) : WellFormed(ps[i])

MapKeys(m) == [i \in 1..Len(m) |-> m[i].k]

compileWeightedRegexMap(obj) ==
  LET m == Coalesce(obj, <<>>) IN
  [threw |-> ~AllWellFormed(MapKeys(m)),
   res |-> [i \in 1..Len(m) |->
              [pattern |-> m[i].k,
               weight |-> IF Truthy(ToNumber(m[i].v)) THEN m[i].v.n ELSE 0]]]

----------------------------------------------------------------------------
\* scoreOne

\* `${title ?? ""}\n\n${body ?? ""}`
Text(it) == Coalesce(it.title, <<>>) \o <<"\n", "\n">> \o Coalesce(it.body, <<>>)

\* What a call that throws leaves behind: no decision record
Threw ==
  [threw |-> TRUE, adopt |-> FALSE, score |-> 0, strongHit |-> <<>>,
   tags |-> <<>>, hits |-> <<>>, scanned |-> 0]

\* lines 89-96: the strong-signal scan from pattern i on; scanned counts the
\* patterns compiled
RECURSIVE StrongScan(_, _, _)
StrongScan(ps, text, i) ==
  IF i > Len(ps) THEN [threw |-> FALSE, strongHit |-> <<>>, scanned |-> Len(ps)]
  ELSE IF ~WellFormed(ps[i]) THEN [threw |-> TRUE, strongHit |-> <<>>, scanned |-> i]
  ELSE IF Test(ps[i], text) THEN [threw |-> FALSE, strongHit |-> ps[i], scanned |-> i]
  ELSE StrongScan(ps, text, i + 1)

StrongStage(it, r) ==
  IF IsAbsent(r.strongSignals) THEN Threw
  ELSE LET s == StrongScan(Coalesce(r.strongSignals[1].patterns, <<>>), Text(it), 1)
       IN IF s.threw THEN Threw
          ELSE [Threw EXCEPT !.threw = FALSE, !.strongHit = s.strongHit,
                             !.scanned = s.scanned]

\* lw[l]
Lookup(m, key) ==
  IF \E i \in 1..Len(m) : m[i].k = key
  THEN Present(m[CHOOSE i \in 1..Len(m) : m[i].k = key].v)
  ELSE Absent

\* a mutant of LabelLoop: the hit is recorded, the weight is not added
RECURSIVE LabelLoop_NoAdd(_, _, _, _)
LabelLoop_NoAdd(st, lw, labels, i) ==
  IF i > Len(labels) THEN st
  ELSE LET l == labels[i]
           w == ToNumber(Coalesce(Lookup(lw, l), Num(0)))
       IN IF Truthy(w)
          THEN LabelLoop_NoAdd([st EXCEPT !.hits = Append(@, [type |-> "label",
                                                              what |-> l, w |-> w.n])],
                               lw, labels, i + 1)
          ELSE LabelLoop_NoAdd(st, lw, labels, i + 1)

\* lines 103-109, from label i on
RECURSIVE LabelLoop(_, _, _, _)
LabelLoop(st, lw, labels, i) ==
  IF i > Len(labels) THEN st
  ELSE LET l == labels[i]
           w == ToNumber(Coalesce(Lookup(lw, l), Num(0)))
       IN IF Truthy(w)
          THEN LabelLoop([st EXCEPT !.score = @ + w.n,
                                    !.hits = Append(@, [type |-> "label", what |-> l,
                                                        w |-> w.n])],
                         lw, labels, i + 1)
          ELSE LabelLoop(st, lw, labels, i + 1)

LabelStage(st, it, r) ==
  IF st.threw THEN st
  ELSE IF IsAbsent(r.scoring) THEN Threw
  ELSE IF IsAbsent(it.labels) THEN Threw
  ELSE LabelLoop(st, Coalesce(r.scoring[1].labelWeights, <<>>), it.labels[1], 1)

\* lines 112-117, from compiled entry i on
RECURSIVE TextLoop(_, _, _, _)
TextLoop(st, res, text, i) ==
  IF i > Len(res) THEN st
  ELSE IF Test(res[i].pattern, text)
       THEN TextLoop([st EXCEPT !.score = @ + res[i].weight,
                                !.hits = Append(@, [type |-> "text",
                                                    what |-> res[i].pattern,
                                                    w |-> res[i].weight])],
                     res, text, i + 1)
       ELSE TextLoop(st, res, text, i + 1)

TextStage(st, it, r) ==
  IF st.threw THEN st
  ELSE LET c == compileWeightedRegexMap(r.scoring[1].textKeywordWeights)
       IN IF c.threw THEN Threw ELSE TextLoop(st, c.res, Text(it), 1)

\* a mutant of FileLoop: a pattern scores once, on the first file it matches
RECURSIVE FileLoop_FirstOnly(_, _, _, _)
FileLoop_FirstOnly(st, re, files, j) ==
  IF j > Len(files) THEN st
  ELSE IF Test(re.pattern, files[j])
       THEN [st EXCEPT !.score = @ + re.weight,
                       !.hits = Append(@, [type |-> "path", what |-> re.pattern,
                                           file |-> files[j], w |-> re.weight])]
       ELSE FileLoop_FirstOnly(st, re, files, j + 1)

\* lines 121-126, for one compiled entry, from file j on
RECURSIVE FileLoop(_, _, _, _)
FileLoop(st, re, files, j) ==
  IF j > Len(files) THEN st
  ELSE IF Test(re.pattern, files[j])
       THEN FileLoop([st EXCEPT !.score = @ + re.weight,
                                !.hits = Append(@, [type |-> "path",
                                                    what |-> re.pattern,
                                                    file |-> files[j],
                                                    w |-> re.weight])],
                     re, files, j + 1)
       ELSE FileLoop(st, re, files, j + 1)

\* lines 120-127, from compiled entry i on; `for (const f of files)` throws
\* when files is undefined
RECURSIVE PathLoop(_, _, _, _)
PathLoop(st, res, files, i) ==
  IF i > Len(res) THEN st
  ELSE IF IsAbsent(files) THEN Threw
  ELSE PathLoop(FileLoop(st, res[i], files[1], 1), res, files, i + 1)

PathStage(st, it, r) ==
  IF st.threw THEN st
  ELSE LET c == compileWeightedRegexMap(r.scoring[1].pathWeights)
       IN IF c.threw THEN Threw ELSE PathLoop(st, c.res, it.files, 1)

\* kwRes.some((re) => re.test(text))
kwHit(m, text) ==
  LET ks == Coalesce(m.keywords, <<>>) IN \E i \in 1..Len(ks) : Test(ks[i], text)

\* a mutant of pHit: every file has to match
pHit_Every(m, files) ==
  LET ps == Coalesce(m.paths, <<>>)
  IN \A j \in 1..Len(files) : \E i \in 1..Len(ps) : Test(ps[i], files[j])

\* files.some((f) => pRes.some((re) => re.test(f)))
pHit(m, files) ==
  LET ps == Coalesce(m.paths, <<>>)
  IN \E j \in 1..Len(files) : \E i \in 1..Len(ps) : Test(ps[i], files[j])

\* lines 131-145, from mapping entry i on
RECURSIVE GuideLoop(_, _, _, _)
GuideLoop(st, ms, it, i) ==
  IF i > Len(ms) THEN st
  ELSE LET m == ms[i]
           bonus == ToNumber(Coalesce(m.scoreBonus, Num(0)))
       IN IF ~AllWellFormed(Coalesce(m.keywords, <<>>)) THEN Threw
          ELSE IF ~AllWellFormed(Coalesce(m.paths, <<>>)) THEN Threw
          ELSE IF IsAbsent(it.files) THEN Threw
          ELSE IF kwHit(m, Text(it)) \/ pHit(m, it.files[1])
               THEN LET tagged == [st EXCEPT !.tags = Append(@, m.tag)]
                    IN GuideLoop(IF Truthy(bonus)
                                 THEN [tagged EXCEPT
                                         !.score = @ + bonus.n,
                                         !.hits = Append(@, [type |-> "guide",
                                                             what |-> m.tag,
                                                             w |-> bonus.n])]
                                 ELSE tagged,
                                 ms, it, i + 1)
               ELSE GuideLoop(st, ms, it, i + 1)

GuideStage(st, it, r) ==
  IF st.threw THEN st
  ELSE GuideLoop(st, Coalesce(r.securityGuideMapping, <<>>), it, 1)

FallbackThreshold == 8

\* lines 147-150
Decide(st, r) ==
  IF st.threw THEN st
  ELSE IF IsAbsent(r.decision) THEN Threw
  ELSE LET threshold == ToNumber(Coalesce(r.decision[1].threshold,
                                          Num(FallbackThreshold)))
       IN [st EXCEPT !.adopt = (Len(st.strongHit) > 0) \/ AtLeast(st.score, threshold)]

scoreOne(it, r) ==
  Decide(GuideStage(PathStage(TextStage(LabelStage(StrongStage(it, r), it, r),
                                        it, r), it, r), it, r), r)

----------------------------------------------------------------------------
\* Bounded inputs

MaxFiles == 2
MaxPatterns == 2

SeqsUpTo(S, n) == UNION {[1..k -> S] : k \in 0..n}

Opt(S) == {Absent} \cup {Present(v) : v \in S}

Titles == Opt({<<"a">>})
Bodies == Opt({<<"b", "b">>})
LabelLists == Opt({<<>>, <<<<"s">>, <<"d">>>>})
Paths == {<<"a">>, <<"b">>}
FileLists == Opt(SeqsUpTo(Paths, MaxFiles))

\* The items scoreOne may be called with: each field may be missing.  main
\* itself always passes a labels list and a files list (lines 231-232).
Items == [title : Titles, body : Bodies, labels : LabelLists, files : FileLists]

\* "" matches every text, "a" the titled ones, "(" does not compile
StrongPatterns == {<<>>, <<"a">>, <<"(">>}
StrongLists == SeqsUpTo(StrongPatterns, MaxPatterns)

Thresholds == {Absent, Present(Num(5))}

LabelWeightMaps ==
  {<<>>, <<[k |-> <<"s">>, v |-> Num(5)], [k |-> <<"d">>, v |-> NotNumeric]>>}
TextWeightMaps ==
  {<<>>, <<[k |-> <<"b">>, v |-> Num(3)], [k |-> <<"a">>, v |-> NotNumeric]>>,
   <<[k |-> <<"(">>, v |-> Num(1)]>>}
PathWeightMaps ==
  {<<>>, <<[k |-> <<"a">>, v |-> Num(-2)]>>}

GuideEntries ==
  [tag : {<<"x">>},
   scoreBonus : {Present(Num(2))},
   keywords : {Absent, Present(<<<<"a">>, <<"b">>>>)},
   paths : {Absent, Present(<<<<"b">>>>)}]
  \cup {[tag |-> <<"x">>, scoreBonus |-> Present(Num(0)),
          keywords |-> Present(<<<<"b">>>>), paths |-> Present(<<>>)]}
\* no entry, every single entry, and one two-entry mapping
GuideLists ==
  {<<>>} \cup {<<e>> : e \in GuideEntries}
  \cup {<<[tag |-> <<"y">>, scoreBonus |-> Present(Num(2)),
           keywords |-> Absent, paths |-> Present(<<<<"a">>>>)],
          [tag |-> <<"x">>, scoreBonus |-> Absent,
           keywords |-> Present(<<<<"b">>>>), paths |-> Absent]>>}

\* Rule documents with every section written out
MkDoc(t, ps, lw, tw, pw, g) ==
  [window |-> Present([type |-> "hours", value |-> Present(Num(24))]),
   decision |-> Present([threshold |-> t]),
   strongSignals |-> Present([patterns |-> Present(ps)]),
   scoring |-> Present([labelWeights |-> Present(lw),
                        textKeywordWeights |-> Present(tw),
                        pathWeights |-> Present(pw)]),
   securityGuideMapping |-> Present(g)]

FullDocs ==
  {MkDoc(t, ps, lw, tw, pw, g) :
     t \in Thresholds, ps \in StrongLists, lw \in LabelWeightMaps,
     tw \in TextWeightMaps, pw \in PathWeightMaps, g \in GuideLists}

----------------------------------------------------------------------------
\* The scoring engine applied to one item under one rule document

NotStarted ==
  /\ numbers = <<>> /\ idx = 0 /\ cur = Absent
  /\ picked = <<>> /\ digest = Absent
  /\ requests = 0 /\ errorAt = 0 /\ evaluated = 0

Init ==
  /\ pc = "start"
  /\ raw \in {Present(d) : d \in FullDocs}
  /\ rules = Absent
  /\ item \in Items
  /\ result = Absent
  /\ NotStarted

\* line 210
LoadRules ==
  /\ pc = "start"
  /\ rules' = Present(readRules(raw))
  /\ pc' = "loaded"
  /\ UNCHANGED <<raw, scoreVars, mainVars>>

\* lines 85-151
Evaluate ==
  /\ pc = "loaded"
  /\ result' = Present(scoreOne(item, rules[1]))
  /\ pc' = "scored"
  /\ UNCHANGED <<raw, rules, item, mainVars>>

Next == LoadRules \/ Evaluate

Spec == Init /\ [][Next]_vars

----------------------------------------------------------------------------
\* The same engine under rule documents with sections left out

PartialDocs ==
  [window : {Absent, Present([type |-> "hours", value |-> Absent]),
             Present([type |-> "hours", value |-> Present(Num(48))])},
   decision : {Absent, Present([threshold |-> Absent]),
               Present([threshold |-> Present(Num(5))])},
   strongSignals : {Absent, Present([patterns |-> Absent]),
                    Present([patterns |-> Present(<<<<"a">>>>)])},
   scoring : {Absent} \cup
             {Present(sc) : sc \in
                [labelWeights : {Absent} \cup {Present(m) : m \in LabelWeightMaps \ {<<>>}},
                 textKeywordWeights : {Absent, Present(<<[k |-> <<"b">>, v |-> Num(3)]>>)},
                 pathWeights : {Absent} \cup {Present(m) : m \in PathWeightMaps \ {<<>>}}]},
   securityGuideMapping :
     {Absent, Present(<<[tag |-> <<"x">>, scoreBonus |-> Present(Num(2)),
                         keywords |-> Absent, paths |-> Present(<<<<"b">>>>)]>>)}]

InitDefaults ==
  /\ pc = "start"
  /\ raw \in {Absent} \cup {Present(d) : d \in PartialDocs}
  /\ rules = Absent
  /\ item \in Items
  /\ result = Absent
  /\ NotStarted

SpecDefaults == InitDefaults /\ [][Next]_vars

----------------------------------------------------------------------------
\* main: one run of the script.  Times are hours relative to the start of the
\* run; a response is [ok, json], the json of an error response being an
\* object with none of the fields the script reads.

MaxPRs == 2
maxPages == 3
FallbackWindowValue == 24

\* a mutant of ghFetch: the status is not looked at
ghFetch_IgnoresStatus(res) == [threw |-> FALSE, data |-> res.json]

\* lines 37-51: throws unless res.ok
ghFetch(res) ==
  IF ~res.ok THEN [threw |-> TRUE, data |-> res.json]
  ELSE [threw |-> FALSE, data |-> res.json]

\* line 212
hoursOf(r) ==
  ToNumber(Coalesce(Coalesce(r.window, [value |-> Absent]).value,
                    Num(FallbackWindowValue)))

\* lines 213-214, isoHoursAgo
sinceOf(r) == 0 - hoursOf(r).n

\* lines 58-59
searchNumbers(data) == SelectSeq(Coalesce(data.items, <<>>), LAMBDA n : n # 0)

\* line 68
issueLabels(issue) == Coalesce(issue.labels, <<>>)

\* picked.sort((a, b) => new Date(b.merged_at) - new Date(a.merged_at)):
\* a stable sort, latest first
RECURSIVE InsertByMerged(_, _)
InsertByMerged(sorted, x) ==
  IF Len(sorted) = 0 THEN <<x>>
  ELSE IF sorted[Len(sorted)].merged_at >= x.merged_at THEN Append(sorted, x)
  ELSE Append(InsertByMerged(SubSeq(sorted, 1, Len(sorted) - 1), x), sorted[Len(sorted)])

RECURSIVE sortPicked(_)
sortPicked(ps) ==
  IF Len(ps) = 0 THEN <<>>
  ELSE InsertByMerged(sortPicked(SubSeq(ps, 1, Len(ps) - 1)), ps[Len(ps)])

\* lines 157-206: the digest, as the entries it lists
buildMarkdown(items) == [items |-> items]

ErrorStatus(json) == [ok |-> FALSE, json |-> json]
Ok(json) == [ok |-> TRUE, json |-> json]

SearchResponses ==
  {ErrorStatus([items |-> Absent])}
  \cup {Ok([items |-> Present([i \in 1..k |-> i])]) : k \in 0..MaxPRs}

PRResponses ==
  {ErrorStatus([merged_at |-> Absent, title |-> Absent, body |-> Absent])}
  \cup {Ok([merged_at |-> m, title |-> t, body |-> Absent]) :
          m \in {Absent, Present(-30), Present(-2), Present(-1)}, t \in Titles}

IssueResponses ==
  {ErrorStatus([labels |-> Absent])}
  \cup {Ok([labels |-> l]) : l \in {Absent, Present(<<<<"s">>>>)}}

\* a page of files: full says the page holds perPage entries
PageResponses ==
  {ErrorStatus([list |-> Absent, full |-> FALSE])}
  \cup {Ok([list |-> Absent, full |-> FALSE]), Ok([list |-> Present(<<>>), full |-> FALSE]),
        Ok([list |-> Present(<<<<"b">>>>), full |-> FALSE]),
        Ok([list |-> Present(<<<<"b">>>>), full |-> TRUE])}

MainDocs ==
  {MkDoc(Absent, <<>>, <<>>, <<>>, <<>>, <<>>),
   MkDoc(Present(Num(5)), <<>>, <<[k |-> <<"s">>, v |-> Num(5)]>>, <<>>,
         <<[k |-> <<"b">>, v |-> Num(-2)]>>, <<>>),
   MkDoc(Absent, <<<<"a">>, <<"(">>>>, <<>>, <<>>, <<>>, <<>>),
   MkDoc(Absent, <<>>, <<>>, <<[k |-> <<"(">>, v |-> Num(1)]>>, <<>>, <<>>)}

InitMain ==
  /\ pc = "start"
  /\ raw \in {Absent} \cup {Present(d) : d \in MainDocs}
  /\ rules = Absent
  /\ item = [title |-> Absent, body |-> Absent, labels |-> Absent, files |-> Absent]
  /\ result = Absent
  /\ NotStarted

\* the bookkeeping of one request
Sent(res) ==
  /\ requests' = requests + 1
  /\ errorAt' = IF ~res.ok /\ errorAt = 0 THEN requests + 1 ELSE errorAt

\* lines 263-266
Fail ==
  /\ pc' = "failed"
  /\ UNCHANGED <<raw, rules, scoreVars, numbers, idx, cur, picked, digest, evaluated>>

\* line 220
Search ==
  /\ pc = "loaded"
  /\ \E res \in SearchResponses :
       /\ Sent(res)
       /\ IF ghFetch(res).threw THEN Fail
          ELSE /\ numbers' = searchNumbers(ghFetch(res).data)
               /\ idx' = 1
               /\ pc' = "loop"
               /\ UNCHANGED <<raw, rules, scoreVars, cur, picked, digest, evaluated>>

\* lines 225-229
GetPR ==
  /\ pc = "loop" /\ idx <= Len(numbers)
  /\ \E res \in PRResponses :
       /\ Sent(res)
       /\ IF ghFetch(res).threw THEN Fail
          ELSE LET pr == ghFetch(res).data IN
               IF IsAbsent(pr.merged_at) \/ pr.merged_at[1] < sinceOf(rules[1])
               THEN /\ idx' = idx + 1
                    /\ UNCHANGED <<pc, raw, rules, scoreVars, numbers, cur, picked,
                                   digest, evaluated>>
               ELSE /\ cur' = Present([pr |-> pr, labels |-> <<>>, files |-> <<>>,
                                       page |-> 1])
                    /\ pc' = "labels"
                    /\ UNCHANGED <<raw, rules, scoreVars, numbers, idx, picked,
                                   digest, evaluated>>

\* line 231
GetIssueLabels ==
  /\ pc = "labels"
  /\ \E res \in IssueResponses :
       /\ Sent(res)
       /\ IF ghFetch(res).threw THEN Fail
          ELSE /\ cur' = Present([cur[1] EXCEPT !.labels = issueLabels(ghFetch(res).data)])
               /\ pc' = "files"
               /\ UNCHANGED <<raw, rules, scoreVars, numbers, idx, picked, digest,
                              evaluated>>

\* lines 75-81: one page of getPRFiles
GetPRFilesPage ==
  /\ pc = "files"
  /\ \E res \in PageResponses :
       /\ Sent(res)
       /\ IF ghFetch(res).threw THEN Fail
          ELSE LET items == ghFetch(res).data IN
               /\ IF IsAbsent(items.list) \/ Len(Coalesce(items.list, <<>>)) = 0
                  THEN pc' = "score" /\ cur' = cur
                  ELSE /\ cur' = Present([cur[1] EXCEPT !.files = @ \o items.list[1],
                                                        !.page = @ + 1])
                       /\ pc' = IF ~items.full \/ cur[1].page = maxPages
                                THEN "score" ELSE "files"
               /\ UNCHANGED <<raw, rules, scoreVars, numbers, idx, picked, digest,
                              evaluated>>

\* lines 234-251
Score ==
  /\ pc = "score"
  /\ LET c == cur[1]
         it == [title |-> c.pr.title, body |-> c.pr.body,
                labels |-> Present(c.labels), files |-> Present(c.files)]
         r == scoreOne(it, rules[1])
     IN /\ item' = it
        /\ result' = Present(r)
        /\ IF r.threw
           THEN /\ pc' = "failed"
                /\ UNCHANGED <<numbers, idx, cur, picked, evaluated>>
           ELSE /\ evaluated' = evaluated + 1
                /\ picked' = IF r.adopt
                             THEN Append(picked,
                                         [number |-> numbers[idx], title |-> c.pr.title,
                                          merged_at |-> c.pr.merged_at[1],
                                          labels |-> c.labels, files |-> c.files,
                                          score |-> r.score, strongHit |-> r.strongHit,
                                          tags |-> r.tags, hits |-> r.hits])
                             ELSE picked
                /\ idx' = idx + 1
                /\ cur' = Absent
                /\ pc' = "loop"
                /\ UNCHANGED numbers
  /\ UNCHANGED <<raw, rules, digest, requests, errorAt>>

\* lines 254-260
Write ==
  /\ pc = "loop" /\ idx > Len(numbers)
  /\ digest' = Present(buildMarkdown(sortPicked(picked)))
  /\ pc' = "done"
  /\ UNCHANGED <<raw, rules, scoreVars, numbers, idx, cur, picked, requests, errorAt,
                 evaluated>>

NextMain ==
  LoadRules \/ Search \/ GetPR \/ GetIssueLabels \/ GetPRFilesPage \/ Score \/ Write

SpecMain == InitMain /\ [][NextMain]_vars

----------------------------------------------------------------------------
\* What the properties below read: the outcome of the call and the inputs as
\* the rule document states them

Done == pc = "scored"
R == result[1]
Returned == Done /\ ~R.threw

Doc == Coalesce(raw, EmptyDoc)
DocPatterns == Coalesce(Coalesce(Doc.strongSignals, [patterns |-> Absent]).patterns, <<>>)
DocScoring ==
  Coalesce(Doc.scoring,
           [labelWeights |-> Absent, textKeywordWeights |-> Absent, pathWeights |-> Absent])
DocLabelWeights == Coalesce(DocScoring.labelWeights, <<>>)
DocTextWeights == Coalesce(DocScoring.textKeywordWeights, <<>>)
DocPathWeights == Coalesce(DocScoring.pathWeights, <<>>)
DocGuide == Coalesce(Doc.securityGuideMapping, <<>>)
DocThreshold ==
  Coalesce(Coalesce(Doc.decision, [threshold |-> Absent]).threshold, Num(8))

ItemText == Text(item)
ItemFiles == Coalesce(item.files, <<>>)

Matches(p, s) == WellFormed(p) /\ Test(p, s)
MatchingStrong == {i \in 1..Len(DocPatterns) : Matches(DocPatterns[i], ItemText)}
WeightOf(v) == IF v.t = "num" THEN v.n ELSE 0

RECURSIVE SumW(_)
SumW(hs) == IF Len(hs) = 0 THEN 0 ELSE hs[1].w + SumW(Tail(hs))

HitsOfType(ty) == SelectSeq(R.hits, LAMBDA h : h.type = ty)
HitsOf(ty, what) == SelectSeq(R.hits, LAMBDA h : h.type = ty /\ h.what = what)

----------------------------------------------------------------------------
\* C1: whenever scoreOne returns and some strong-signal pattern (all of them
\* well-formed) matches the combined text, adopt is true, whatever the score
\* and the threshold.
C1_StrongMatchAdopts ==
  (Returned /\ AllWellFormed(DocPatterns) /\ MatchingStrong # {}) => R.adopt

\* C2: the returned score is the sum of the weights of the returned hits.
C2_ScoreIsSumOfHits == Returned => R.score = SumW(R.hits)

C2_Witness ==
  /\ Returned
  /\ \A ty \in {"label", "text", "path", "guide"} : Len(HitsOfType(ty)) > 0
  /\ \E n \in 1..Len(R.hits) : R.hits[n].w < 0

\* C3: when no strong-signal pattern matches the combined text, adopt is true
\* exactly when score >= threshold, the threshold being 8 when not configured.
C3_ThresholdDecides ==
  (Returned /\ MatchingStrong = {}) => (R.adopt <=> R.score >= DocThreshold.n)

\* the inclusive boundary, on the default threshold
C3_Witness ==
  /\ Returned /\ MatchingStrong = {} /\ Len(DocPatterns) > 0
  /\ IsAbsent(Doc.decision[1].threshold)
  /\ R.score = 8 /\ R.adopt

\* every pattern of the rule document compiles
GuideWellFormed(m) ==
  AllWellFormed(Coalesce(m.keywords, <<>>)) /\ AllWellFormed(Coalesce(m.paths, <<>>))
DocWellFormed ==
  /\ AllWellFormed(DocPatterns)
  /\ AllWellFormed(MapKeys(DocTextWeights))
  /\ AllWellFormed(MapKeys(DocPathWeights))
  /\ \A i \in 1..Len(DocGuide) : GuideWellFormed(DocGuide[i])

\* C5: under a rule document whose patterns all compile, scoreOne returns a
\* decision record for every item, also when title, body, labels or files is
\* absent, and an absent labels or files field contributes no label, path or
\* guide hit.
C5_AbsentFieldsNeverFail ==
  (Done /\ DocWellFormed) =>
    /\ ~R.threw
    /\ IsAbsent(item.labels) => Len(HitsOfType("label")) = 0
    /\ IsAbsent(item.files) => Len(HitsOfType("path")) = 0

FirstMatching == CHOOSE i \in MatchingStrong : \A j \in MatchingStrong : i <= j

\* C6: strongHit is the first pattern, in declared order, that matches the
\* combined text, no pattern after it is compiled, and strongHit is empty
\* exactly when no pattern matches.
C6_FirstMatchWins ==
  Returned =>
    /\ MatchingStrong # {} =>
         /\ R.strongHit = DocPatterns[FirstMatching]
         /\ R.scanned = FirstMatching
    /\ Len(R.strongHit) = 0 <=> MatchingStrong = {}

RECURSIVE SumF(_, _)
SumF(f, n) == IF n = 0 THEN 0 ELSE f[n] + SumF(f, n - 1)

MatchingFiles(p) == SelectSeq(ItemFiles, LAMBDA f : Test(p, f))
PathPart ==
  SumF([i \in 1..Len(DocPathWeights) |->
          WeightOf(DocPathWeights[i].v) * Len(MatchingFiles(DocPathWeights[i].k))],
       Len(DocPathWeights))
TextPart ==
  SumF([i \in 1..Len(DocTextWeights) |->
          IF Test(DocTextWeights[i].k, ItemText)
          THEN WeightOf(DocTextWeights[i].v) ELSE 0],
       Len(DocTextWeights))
Occurrences(p, s) == {k \in 1..(Len(s) - Len(p) + 1) : OccursAt(p, s, k)}

\* C7: a pathWeights pattern matching N occurrences in files (duplicates
\* counted) gives N path hits, one per matching occurrence in order, each
\* carrying that file and the weight, and adds the weight N times; a
\* textKeywordWeights pattern matching the text gives one text hit and adds
\* its weight once, however often it occurs.
C7_PathPerFileTextOnce ==
  Returned =>
    /\ \A i \in 1..Len(DocPathWeights) :
         LET e == DocPathWeights[i]
             ph == HitsOf("path", e.k)
             mf == MatchingFiles(e.k)
         IN /\ Len(ph) = Len(mf)
            /\ \A n \in 1..Len(ph) : ph[n].file = mf[n] /\ ph[n].w = WeightOf(e.v)
    /\ \A n \in 1..Len(HitsOfType("path")) :
         \E i \in 1..Len(DocPathWeights) :
           HitsOfType("path")[n].what = DocPathWeights[i].k
    /\ \A i \in 1..Len(DocTextWeights) :
         LET e == DocTextWeights[i]
             th == HitsOf("text", e.k)
         IN /\ Len(th) = IF Test(e.k, ItemText) THEN 1 ELSE 0
            /\ \A n \in 1..Len(th) : th[n].w = WeightOf(e.v)
    /\ Len(HitsOfType("text")) <= Len(DocTextWeights)
    /\ R.score = SumW(HitsOfType("label")) + TextPart + PathPart
                   + SumW(HitsOfType("guide"))

\* a duplicated file matched twice, and a text pattern occurring twice
C7_Witness ==
  /\ Returned
  /\ Len(ItemFiles) = 2 /\ ItemFiles[1] = ItemFiles[2]
  /\ \E i \in 1..Len(DocPathWeights) :
       Len(HitsOf("path", DocPathWeights[i].k)) = 2
  /\ \E i \in 1..Len(DocTextWeights) :
       /\ Cardinality(Occurrences(DocTextWeights[i].k, ItemText)) = 2
       /\ Len(HitsOf("text", DocTextWeights[i].k)) = 1
       /\ WeightOf(DocTextWeights[i].v) # 0

Fires(m) ==
  LET ks == Coalesce(m.keywords, <<>>)
      ps == Coalesce(m.paths, <<>>)
  IN \/ \E i \in 1..Len(ks) : Test(ks[i], ItemText)
     \/ \E i \in 1..Len(ps) : \E j \in 1..Len(ItemFiles) : Test(ps[i], ItemFiles[j])
BonusOf(m) == WeightOf(Coalesce(m.scoreBonus, Num(0)))
FiredEntries == SelectSeq(DocGuide, Fires)
BonusEntries == SelectSeq(FiredEntries, LAMBDA m : BonusOf(m) # 0)
GuidePart ==
  SumF([i \in 1..Len(DocGuide) |->
          IF Fires(DocGuide[i]) THEN BonusOf(DocGuide[i]) ELSE 0],
       Len(DocGuide))

\* C9: a guide-mapping entry fires exactly when a keyword pattern matches the
\* text or a path pattern matches a file; tags holds the tag of each fired
\* entry once, in order, and the guide hits are the fired entries with a
\* nonzero bonus, each once with that bonus, which is added to the score once.
C9_GuideMapping ==
  Returned =>
    /\ R.score = SumW(HitsOfType("label")) + SumW(HitsOfType("text"))
                   + SumW(HitsOfType("path")) + GuidePart
    /\ R.tags = [n \in 1..Len(FiredEntries) |-> FiredEntries[n].tag]
    /\ HitsOfType("guide") =
         [n \in 1..Len(BonusEntries) |->
            [type |-> "guide", what |-> BonusEntries[n].tag,
             w |-> BonusOf(BonusEntries[n])]]
    /\ \A i \in 1..Len(DocGuide) :
         (IsAbsent(DocGuide[i].keywords) /\ IsAbsent(DocGuide[i].paths))
           => \A n \in 1..Len(R.tags) : R.tags[n] # DocGuide[i].tag

\* two entries fired, one by a path only and with a bonus, one by a keyword
\* only and without
C9_Witness ==
  /\ Returned
  /\ Len(DocGuide) = 2 /\ Len(R.tags) = 2 /\ Len(HitsOfType("guide")) = 1
  /\ Len(ItemFiles) = 2 /\ ItemFiles[1] = ItemFiles[2]

\* C4: with a malformed pattern anywhere in the rule document, the run never
\* completes a scoreOne evaluation and never writes the digest.
C4_MalformedAbortsBeforeScoring ==
  ~DocWellFormed => (evaluated = 0 /\ IsAbsent(digest))

\* C8: once a request got an error status the run has failed: no request
\* follows it (no retry, no further fetch), nothing more is scored and the
\* digest is not written; the digest is written only after the loop went
\* through every candidate number without a retrieval error.
C8_RetrievalErrorIsFatal ==
  /\ errorAt > 0 => (pc = "failed" /\ requests = errorAt /\ IsAbsent(digest))
  /\ ~IsAbsent(digest) => (pc = "done" /\ errorAt = 0 /\ idx > Len(numbers))

\* a run that failed on a later request, after it had adopted a pull request
C8_Witness ==
  /\ pc = "failed" /\ errorAt > 4 /\ requests = errorAt
  /\ Len(picked) > 0 /\ idx = Len(numbers) /\ IsAbsent(digest)

\* the rule document with every missing section and nested field written out
\* as its default: empty mappings and sequences, threshold 8, window 24 hours
ExplicitDoc ==
  LET w == Coalesce(Doc.window, [type |-> "hours", value |-> Absent])
      d == Coalesce(Doc.decision, [threshold |-> Absent])
      ss == Coalesce(Doc.strongSignals, [patterns |-> Absent])
  IN [window |-> Present([type |-> w.type,
                          value |-> Present(Coalesce(w.value, Num(24)))]),
      decision |-> Present([threshold |-> Present(Coalesce(d.threshold, Num(8)))]),
      strongSignals |-> Present([patterns |-> Present(Coalesce(ss.patterns, <<>>))]),
      scoring |-> Present([labelWeights |-> Present(DocLabelWeights),
                           textKeywordWeights |-> Present(DocTextWeights),
                           pathWeights |-> Present(DocPathWeights)]),
      securityGuideMapping |-> Present(DocGuide)]

ZeroRecord ==
  [threw |-> FALSE, adopt |-> FALSE, score |-> 0, strongHit |-> <<>>,
   tags |-> <<>>, hits |-> <<>>, scanned |-> 0]

\* C10: a rule document with sections or nested fields missing gives, for
\* every item, the decision record of the document with them written out as
\* empty mappings and sequences, threshold 8 and window 24 hours (the same
\* record, or the same failure on an item scoreOne fails on); the empty
\* document gives every item that carries a labels list score 0, no hits, no
\* tags, no strong hit and adopt = false.
C10_DefaultEquivalence ==
  /\ pc # "start" => hoursOf(rules[1]) = ExplicitDoc.window[1].value[1]
  /\ Done => R = scoreOne(item, ExplicitDoc)
  /\ (Done /\ Doc = EmptyDoc /\ ~IsAbsent(item.labels)) => R = ZeroRecord

\* a document without strongSignals, with a decision without threshold and a
\* scoring section holding only pathWeights, under which a path hit is scored
C10_Witness ==
  /\ Returned
  /\ IsAbsent(Doc.strongSignals) /\ IsAbsent(Doc.window)
  /\ ~IsAbsent(Doc.decision) /\ IsAbsent(Doc.decision[1].threshold)
  /\ ~IsAbsent(Doc.scoring) /\ IsAbsent(Doc.scoring[1].labelWeights)
  /\ IsAbsent(Doc.scoring[1].textKeywordWeights)
  /\ Len(HitsOfType("path")) > 0 /\ ~R.adopt

====
